---- MODULE Spec2Model ----
(***************************************************************************)
(* Blaze.Var (packages/blaze/var.js): a reactive mutable variable on top   *)
(* of the Deps dependency tracker.                                         *)
(*                                                                         *)
(* The model runs four programs, chosen by the initial state:              *)
(*   "example1"  cells a and b and an observer O1 logging                  *)
(*               a.get() + b.get();                                        *)
(*   "example2"  cells a and b and a wrapper computation W that creates    *)
(*               c = Blaze.Var(function () { return a.get() + b.get() })   *)
(*               and an observer O2 logging c.get();                       *)
(*   "equals"    a cell e holding objects, with or without an equalsFunc   *)
(*               comparing the id field, and an observer OE calling        *)
(*               e.get() and logging e.toString();                         *)
(*   "antipattern"  cells a and b and a computation WA that creates c as   *)
(*               the wrapper does and logs c.get() itself.                 *)
(* Every action is one statement typed at the console: it runs to          *)
(* completion, and the engine's flush runs between statements.             *)
(***************************************************************************)
EXTENDS Integers, Sequences, FiniteSets

\* ------------------------------------------------------------------ bounds
MaxNum == 2     \* numbers stored in a and b range over 1..MaxNum
MaxObj == 3     \* object references stored in e range over 1..MaxObj
MaxGen == 2     \* runs of the wrapper computation (each creates a new c)

\* --------------------------------------------------------------- JS values
Val(t, n, id, ref, str) == [t |-> t, n |-> n, id |-> id, ref |-> ref, s |-> str]

Null     == Val("null", 0, 0, 0, "")
NaN      == Val("nan", 0, 0, 0, "")
Num(k)   == Val("num", k, 0, 0, "")
\* object number r: 1 = {id: 1, n: 1}, 2 = {id: 1, n: 2}, 3 = {id: 2, n: 2}, ...
Obj(r)   == Val("obj", (r \div 2) + 1, (r + 1) \div 2, r, "")
\* the initializer function () { return a.get() + b.get(); }
Producer == Val("fn", 0, 0, 0, "")

Nums == {Num(k) : k \in 1..MaxNum}
Objs == {Obj(r) : r \in 1..MaxObj}

\* typeof v === 'function'
IsFunction(v) == v.t = "fn"

\* newValue === oldValue
StrictEquals(x, y) ==
  /\ x.t = y.t
  /\ CASE x.t = "nan"  -> FALSE
       [] x.t = "num"  -> x.n = y.n
       [] x.t = "obj"  -> x.ref = y.ref
       [] x.t = "str"  -> x.s = y.s /\ x.n = y.n
       [] OTHER        -> TRUE

\* x + y on the numbers held by a and b
Plus(x, y) == IF x.t = "num" /\ y.t = "num" THEN Num(x.n + y.n) ELSE NaN

\* 'Var{' + v + '}'
VarString(v) ==
  CASE v.t = "num"  -> Val("str", v.n, 0, 0, "Var{#n}")
    [] v.t = "nan"  -> Val("str", 0, 0, 0, "Var{NaN}")
    [] v.t = "null" -> Val("str", 0, 0, 0, "Var{null}")
    [] v.t = "obj"  -> Val("str", 0, 0, 0, "Var{[object Object]}")
    [] OTHER        -> Val("str", 0, 0, 0, "Var{function}")

\* the equalsFunc of the example: function (x, y) { return x.id === y.id; }
\* (reading a property of null throws a TypeError)
EqualsById(x, y) ==
  IF x.t = "null" \/ y.t = "null"
  THEN [threw |-> TRUE, val |-> FALSE]
  ELSE [threw |-> FALSE, val |-> (x.id = y.id)]

\* an equalsFunc for which every two values are the same:
\* function (x, y) { return true; }
EqualsAlways(x, y) == [threw |-> FALSE, val |-> TRUE]

EqualsFuncs == {"none", "byId", "always"}

\* ------------------------------------------------------------- identifiers
\* the variables a, b, c, e of the programs; r is the Var of a
\* Blaze.Var(function...) typed at the console.  A re-run of the wrapper
\* assigns a new Var to c: the variable then names the new object, and the
\* old one, whose computations are stopped, is unreachable.
\* In the antipattern the Var of the previous run stays observable: the runs
\* of WA assign c and c2 in turn.
A == "a"
B == "b"
C == "c"
C2 == "c2"
E == "e"
R == "r"
CellIds == {A, B, C, C2, E, R}

NoComp == "none"
O1     == "O1"        \* autorun logging a.get() + b.get()
OE     == "OE"        \* autorun calling e.get() and logging e.toString()
W      == "W"         \* the wrapper computation
WA     == "WA"        \* the computation that creates c and reads it
SC     == "S.c"       \* c.computation
SC2    == "S.c2"      \* c2.computation
SR     == "S.r"       \* r.computation
O2     == "O2"        \* autorun logging c.get(), created by the wrapper
CompIds == {O1, OE, W, WA, SC, SC2, SR, O2}

\* self.computation of the Var x
SelfOf(x) == CASE x = C -> SC [] x = C2 -> SC2 [] OTHER -> SR
CellOf(k) == CASE k = SC -> C [] k = SC2 -> C2 [] OTHER -> R

\* the variable assigned by the g-th run of WA
AntiCell(g) == IF g % 2 = 1 THEN C ELSE C2

\* the engine walks sets of computations in creation order
Rank(k) ==
  CASE k = O1 -> 1 [] k = OE -> 2 [] k = W -> 3 [] k = WA -> 3
    [] k = SC -> 4 [] k = O2 -> 5 [] k = SC2 -> 6 [] OTHER -> 7

First(ks) == CHOOSE k \in ks : \A j \in ks : Rank(k) <= Rank(j)

\* Blaze.currentController is null at the console and in the flush; the
\* wrapper of example 2 is started by rendering code, under a controller
Controllers == {"ctl"}

\* ------------------------------------------------------------------- state
VARIABLES
  cells,     \* the Blaze.Var objects: equalsFunc, curValue, inited, dep, computation
  comps,     \* the Deps computations
  pending,   \* computations invalidated and waiting for the flush
  program,   \* "example1", "example2" or "equals"
  gen,       \* number of runs of the wrapper so far
  log,       \* last value logged by each observer
  reads,     \* cells on which a computation called get during its latest run
  gets,      \* how many times a computation called get on each cell in that run
  runs,      \* how many times each computation's function ran in the last statement
  error,     \* exception thrown by the last statement
  ret,       \* value returned by the last get or toString typed at the console
  lastOp,    \* the last statement
  batch      \* the cells changed by the a.set and b.set typed since nothing was pending

vars == <<program, cells, comps, pending, gen, log, reads, gets, runs, error,
          ret, lastOp, batch>>

NoCell == [constructed |-> FALSE, equalsFunc |-> "none", curValue |-> Null,
           inited |-> FALSE, dep |-> {}, computation |-> NoComp,
           controller |-> "null"]

NoComputation == [created |-> FALSE, stopped |-> FALSE, invalidated |-> FALSE,
                  parent |-> NoComp, wrapped |-> FALSE, seen |-> "null"]

\* the state an operation works on: the variables, plus Deps.currentComputation
\* (current) and Blaze.currentController (controller), which are restored
\* before control returns to the console; mode tells the program that runs:
\* "code" for var.js, "spec" for the ReactiveCell of the specification
Cur(ctl) ==
  [cells |-> cells, comps |-> comps, pending |-> pending, gen |-> gen,
   log |-> log, reads |-> reads, gets |-> gets, runs |-> [k \in CompIds |-> 0],
   error |-> "none", ret |-> Null, current |-> NoComp, controller |-> ctl,
   mode |-> "code"]

\* Deps.active
Active(s) == s.current # NoComp

\* ------------------------------------------------- the Deps tracking engine
\* Deps.Dependency#depend: register the current computation, if any
Depend(s, x) ==
  IF s.current = NoComp THEN s
  ELSE [s EXCEPT !.cells[x].dep = @ \cup {s.current}]

\* a computation that is invalidated or stopped leaves every dependency
Deregister(s, k) ==
  [s EXCEPT !.cells = [x \in CellIds |-> [s.cells[x] EXCEPT !.dep = @ \ {k}]]]

\* the computations created while k was the current computation
Children(s, k) ==
  {j \in CompIds : s.comps[j].created /\ s.comps[j].parent = k /\ ~s.comps[j].stopped}

RECURSIVE StopComputation(_, _), StopEach(_, _)

\* Computation#stop: a stopped computation never runs again, and the
\* computations nested in it are stopped too
StopComputation(s, k) ==
  IF s.comps[k].stopped THEN s
  ELSE LET s1 == [s EXCEPT !.comps[k].stopped = TRUE,
                           !.pending = SelectSeq(@, LAMBDA j : j # k)]
           s2 == Deregister(s1, k)
       IN  StopEach(s2, Children(s2, k))

StopEach(s, ks) ==
  IF ks = {} THEN s
  ELSE LET k == First(ks) IN StopEach(StopComputation(s, k), ks \ {k})

\* Computation#invalidate: edge-triggered; the computation is queued for the
\* flush, forgets its dependencies, and its nested computations are stopped
Invalidate(s, k) ==
  IF s.comps[k].invalidated THEN s
  ELSE LET s1 == [s EXCEPT !.comps[k].invalidated = TRUE,
                           !.pending = IF s.comps[k].stopped THEN @ ELSE Append(@, k)]
           s2 == Deregister(s1, k)
       IN  StopEach(s2, Children(s2, k))

RECURSIVE InvalidateEach(_, _)
InvalidateEach(s, ks) ==
  IF ks = {} THEN s
  ELSE LET k == First(ks) IN InvalidateEach(Invalidate(s, k), ks \ {k})

\* Deps.Dependency#changed: invalidate every registered dependent
DepChanged(s, x) == InvalidateEach(s, s.cells[x].dep)

\* Blaze.withCurrentController(controller, f): f runs with controller
\* installed, and the controller installed before is restored afterwards
InstallController(s, controller) == [s EXCEPT !.controller = controller]

RestoreController(t, s) == [t EXCEPT !.controller = s.controller]

\* Blaze._wrapAutorun(computation): marks the computation as owned by a Var
WrapAutorun(s, k) == [s EXCEPT !.comps[k].wrapped = TRUE]

\* console.log in an observer
Log(s, k, v) == [s EXCEPT !.log[k] = v]

\* ------------------------------------------------------ Blaze.Var.prototype
\* get with one Deps.Dependency shared by all Vars (dep on the prototype)
VarGet_SharedDep(s, x) ==
  LET s1 == IF Active(s)
            THEN [s EXCEPT !.cells = [y \in CellIds |->
                                        [s.cells[y] EXCEPT !.dep = @ \cup {s.current}]]]
            ELSE s
      s2 == IF s.current = NoComp THEN s1
            ELSE [s1 EXCEPT !.reads[s.current] = @ \cup {x},
                            !.gets[s.current][x] = @ + 1]
  IN  [s2 EXCEPT !.ret = s.cells[x].curValue]

\* get that depends only while the Var's own computation is running
VarGet_DeadWhenStopped(s, x) ==
  LET k  == s.cells[x].computation
      s1 == IF Active(s) /\ (k = NoComp \/ ~s.comps[k].stopped)
            THEN Depend(s, x) ELSE s
      s2 == IF s.current = NoComp THEN s1
            ELSE [s1 EXCEPT !.reads[s.current] = @ \cup {x},
                            !.gets[s.current][x] = @ + 1]
  IN  [s2 EXCEPT !.ret = s.cells[x].curValue]

\* get that registers the Var's own computation when none is active
VarGet_FallbackToOwn(s, x) ==
  LET k  == s.cells[x].computation
      s1 == IF Active(s) THEN Depend(s, x)
            ELSE IF k # NoComp THEN [s EXCEPT !.cells[x].dep = @ \cup {k}]
            ELSE s
      s2 == IF s.current = NoComp THEN s1
            ELSE [s1 EXCEPT !.reads[s.current] = @ \cup {x},
                            !.gets[s.current][x] = @ + 1]
  IN  [s2 EXCEPT !.ret = s.cells[x].curValue]

\* get that takes the registration back when the computation calls it again
VarGet_Toggle(s, x) ==
  LET s1 == IF ~Active(s) THEN s
            ELSE IF s.current \in s.cells[x].dep
                 THEN [s EXCEPT !.cells[x].dep = @ \ {s.current}]
                 ELSE Depend(s, x)
      s2 == IF s.current = NoComp THEN s1
            ELSE [s1 EXCEPT !.reads[s.current] = @ \cup {x},
                            !.gets[s.current][x] = @ + 1]
  IN  [s2 EXCEPT !.ret = s.cells[x].curValue]

\* get: function () { if (Deps.active) this.dep.depend(); return this.curValue; }
VarGet(s, x) ==
  LET s1 == IF Active(s) THEN Depend(s, x) ELSE s
      s2 == IF s.current = NoComp THEN s1
            ELSE [s1 EXCEPT !.reads[s.current] = @ \cup {x},
                            !.gets[s.current][x] = @ + 1]
  IN  [s2 EXCEPT !.ret = s.cells[x].curValue]

\* toString: function () { return 'Var{' + this.get() + '}'; }
VarToString(s, x) ==
  LET s1 == VarGet(s, x) IN [s1 EXCEPT !.ret = VarString(s1.ret)]

\* equals(newValue, oldValue), or newValue === oldValue without an equalsFunc
SameValue(equals, newValue, oldValue) ==
  CASE equals = "none"   -> [threw |-> FALSE, val |-> StrictEquals(newValue, oldValue)]
    [] equals = "always" -> EqualsAlways(newValue, oldValue)
    [] OTHER             -> EqualsById(newValue, oldValue)

\* set without the comparison: every set stores and invalidates
VarSet_NoCompare(s, x, newValue) ==
  DepChanged([s EXCEPT !.cells[x].curValue = newValue], x)

\* set without this.dep.changed()
VarSet_NoChanged(s, x, newValue) ==
  LET same == SameValue(s.cells[x].equalsFunc, newValue, s.cells[x].curValue)
  IN  IF s.cells[x].inited /\ same.threw THEN [s EXCEPT !.error = "TypeError"]
      ELSE IF s.cells[x].inited /\ same.val THEN s
      ELSE [s EXCEPT !.cells[x].curValue = newValue]

\* set with the comparison inverted: a set is dropped when the values differ
VarSet_Inverted(s, x, newValue) ==
  LET same == SameValue(s.cells[x].equalsFunc, newValue, s.cells[x].curValue)
  IN  IF s.cells[x].inited /\ same.threw THEN [s EXCEPT !.error = "TypeError"]
      ELSE IF s.cells[x].inited /\ ~same.val THEN s
      ELSE DepChanged([s EXCEPT !.cells[x].curValue = newValue], x)

\* set that ignores this.equalsFunc and always compares with ===
VarSet_IgnoreEqualsFunc(s, x, newValue) ==
  IF s.cells[x].inited /\ StrictEquals(newValue, s.cells[x].curValue) THEN s
  ELSE DepChanged([s EXCEPT !.cells[x].curValue = newValue], x)

\* set that stores the new value before it compares it with the old one
VarSet_StoreFirst(s, x, newValue) ==
  LET same == SameValue(s.cells[x].equalsFunc, newValue, s.cells[x].curValue)
      s1   == [s EXCEPT !.cells[x].curValue = newValue]
  IN  IF s.cells[x].inited /\ same.threw THEN [s1 EXCEPT !.error = "TypeError"]
      ELSE IF s.cells[x].inited /\ same.val THEN s
      ELSE DepChanged(s1, x)

\* set: function (newValue)
VarSet(s, x, newValue) ==
  LET equals   == s.cells[x].equalsFunc
      oldValue == s.cells[x].curValue
      same     == SameValue(equals, newValue, oldValue)
  IN  IF s.cells[x].inited /\ same.threw THEN [s EXCEPT !.error = "TypeError"]
      ELSE IF s.cells[x].inited /\ same.val THEN s
      ELSE DepChanged([s EXCEPT !.cells[x].curValue = newValue], x)

\* set of the specification's ReactiveCell: changed = !initialized ||
\* !equals(newValue, oldValue); if changed: value = newValue; initialized =
\* true; invalidate the dependents
CellSet(s, x, newValue) ==
  LET same    == SameValue(s.cells[x].equalsFunc, newValue, s.cells[x].curValue)
      changed == ~s.cells[x].inited \/ ~same.val
  IN  IF s.cells[x].inited /\ same.threw THEN [s EXCEPT !.error = "TypeError"]
      ELSE IF ~changed THEN s
      ELSE DepChanged([s EXCEPT !.cells[x].curValue = newValue,
                                !.cells[x].inited = TRUE], x)

\* self.set(...) in the program that runs
SetIn(s, x, newValue) ==
  IF s.mode = "spec" THEN CellSet(s, x, newValue) ELSE VarSet(s, x, newValue)

\* ---------------------------------------------- computations and their bodies
RECURSIVE Compute(_, _), Body(_, _), Autorun(_, _), BlazeVar(_, _, _, _)
RECURSIVE ReactiveCell(_, _, _, _), Construct(_, _, _, _)

\* one run of computation k: its function runs with k as current computation
Compute(s, k) ==
  LET s1 == [s EXCEPT !.comps[k].invalidated = FALSE,
                      !.reads[k] = {},
                      !.gets[k] = [x \in CellIds |-> 0],
                      !.runs[k] = @ + 1,
                      !.current = k]
      s2 == Body(s1, k)
  IN  [s2 EXCEPT !.current = s.current]

\* Deps.autorun(f): the new computation is nested in the current one and
\* runs f immediately
Autorun(s, k) ==
  Compute([s EXCEPT !.comps[k] = [NoComputation EXCEPT !.created = TRUE,
                                                       !.parent = s.current]], k)

\* the constructor without the Deps.active check
BlazeVar_NoActiveCheck(s, x, initializer, equalsFunc) ==
  LET s1 == [s EXCEPT !.cells[x] = [NoCell EXCEPT !.equalsFunc = equalsFunc]]
      Done(t) == [t EXCEPT !.cells[x].inited = TRUE, !.cells[x].constructed = TRUE]
  IN  IF IsFunction(initializer)
      THEN LET s2 == [s1 EXCEPT !.cells[x].controller = s1.controller]
               s3 == Autorun(s2, SelfOf(x))
               s4 == [s3 EXCEPT !.cells[x].computation = SelfOf(x)]
           IN  Done(WrapAutorun(s4, SelfOf(x)))
      ELSE Done(VarSet(s1, x, initializer))

\* the constructor starting self.computation outside the current computation
BlazeVar_Detached(s, x, initializer, equalsFunc) ==
  LET s1 == [s EXCEPT !.cells[x] = [NoCell EXCEPT !.equalsFunc = equalsFunc]]
      Done(t) == [t EXCEPT !.cells[x].inited = TRUE, !.cells[x].constructed = TRUE]
  IN  IF IsFunction(initializer)
      THEN IF ~Active(s1)
           THEN [s1 EXCEPT !.error = "precondition"]
           ELSE LET s2 == [s1 EXCEPT !.cells[x].controller = s1.controller,
                                     !.current = NoComp]
                    s3 == [Autorun(s2, SelfOf(x)) EXCEPT !.current = s1.current]
                    s4 == [s3 EXCEPT !.cells[x].computation = SelfOf(x)]
                IN  Done(WrapAutorun(s4, SelfOf(x)))
      ELSE Done(VarSet(s1, x, initializer))

\* the constructor without self.inited = true
BlazeVar_NeverInited(s, x, initializer, equalsFunc) ==
  LET s1 == [s EXCEPT !.cells[x] = [NoCell EXCEPT !.equalsFunc = equalsFunc]]
      Done(t) == [t EXCEPT !.cells[x].constructed = TRUE]
  IN  IF IsFunction(initializer)
      THEN IF ~Active(s1)
           THEN [s1 EXCEPT !.error = "precondition"]
           ELSE LET s2 == [s1 EXCEPT !.cells[x].controller = s1.controller]
                    s3 == Autorun(s2, SelfOf(x))
                    s4 == [s3 EXCEPT !.cells[x].computation = SelfOf(x)]
                IN  Done(WrapAutorun(s4, SelfOf(x)))
      ELSE Done(VarSet(s1, x, initializer))

\* the constructor calling the initializer once in the current computation,
\* before it starts self.computation
BlazeVar_EagerInitializer(s, x, initializer, equalsFunc) ==
  LET s1 == [s EXCEPT !.cells[x] = [NoCell EXCEPT !.equalsFunc = equalsFunc]]
      Done(t) == [t EXCEPT !.cells[x].inited = TRUE, !.cells[x].constructed = TRUE]
  IN  IF IsFunction(initializer)
      THEN IF ~Active(s1)
           THEN [s1 EXCEPT !.error = "precondition"]
           ELSE LET s2 == [s1 EXCEPT !.cells[x].controller = s1.controller]
                    s3 == Autorun(VarGet(VarGet(s2, A), B), SelfOf(x))
                    s4 == [s3 EXCEPT !.cells[x].computation = SelfOf(x)]
                IN  Done(WrapAutorun(s4, SelfOf(x)))
      ELSE Done(VarSet(s1, x, initializer))

\* the constructor without var controller = Blaze.currentController: the
\* producer runs under whatever controller is current at the time of the run
BlazeVar_NoCapture(s, x, initializer, equalsFunc) ==
  LET s1 == [s EXCEPT !.cells[x] = [NoCell EXCEPT !.equalsFunc = equalsFunc]]
      Done(t) == [t EXCEPT !.cells[x].inited = TRUE, !.cells[x].constructed = TRUE]
  IN  IF IsFunction(initializer)
      THEN IF ~Active(s1)
           THEN [s1 EXCEPT !.error = "precondition"]
           ELSE LET s3 == Autorun(s1, SelfOf(x))
                    s4 == [s3 EXCEPT !.cells[x].computation = SelfOf(x)]
                IN  Done(WrapAutorun(s4, SelfOf(x)))
      ELSE Done(VarSet(s1, x, initializer))

\* the constructor with self.inited = true moved before the first set
BlazeVar_InitedFirst(s, x, initializer, equalsFunc) ==
  LET s1 == [s EXCEPT !.cells[x] = [NoCell EXCEPT !.equalsFunc = equalsFunc,
                                                  !.inited = TRUE]]
      Done(t) == [t EXCEPT !.cells[x].constructed = TRUE]
  IN  IF IsFunction(initializer)
      THEN IF ~Active(s1)
           THEN [s1 EXCEPT !.error = "precondition", !.cells[x].inited = FALSE]
           ELSE LET s2 == [s1 EXCEPT !.cells[x].controller = s1.controller]
                    s3 == Autorun(s2, SelfOf(x))
                    s4 == [s3 EXCEPT !.cells[x].computation = SelfOf(x)]
                IN  Done(WrapAutorun(s4, SelfOf(x)))
      ELSE Done(VarSet(s1, x, initializer))

\* Blaze.Var = function (initializer, equalsFunc), for the Var object x
BlazeVar(s, x, initializer, equalsFunc) ==
  LET s1 == [s EXCEPT !.cells[x] = [NoCell EXCEPT !.equalsFunc = equalsFunc]]
      Done(t) == [t EXCEPT !.cells[x].inited = TRUE, !.cells[x].constructed = TRUE]
  IN  IF IsFunction(initializer)
      THEN IF ~Active(s1)
           THEN [s1 EXCEPT !.error = "precondition"]
           ELSE LET s2 == [s1 EXCEPT !.cells[x].controller = s1.controller]
                    s3 == Autorun(s2, SelfOf(x))
                    s4 == [s3 EXCEPT !.cells[x].computation = SelfOf(x)]
                IN  Done(WrapAutorun(s4, SelfOf(x)))
      ELSE Done(VarSet(s1, x, initializer))

\* the constructor of the specification's ReactiveCell: a plain initializer
\* is stored directly and the cell marked initialized; a producer is run in
\* a nested computation that feeds its result through set, which marks the
\* cell initialized
ReactiveCell(s, x, initializer, equalsFunc) ==
  LET s1 == [s EXCEPT !.cells[x] = [NoCell EXCEPT !.equalsFunc = equalsFunc]]
  IN  IF IsFunction(initializer)
      THEN IF ~Active(s1)
           THEN [s1 EXCEPT !.error = "precondition"]
           ELSE LET s2 == [s1 EXCEPT !.cells[x].controller = s1.controller]
                    s3 == Autorun(s2, SelfOf(x))
                    s4 == [s3 EXCEPT !.cells[x].computation = SelfOf(x)]
                IN  [WrapAutorun(s4, SelfOf(x)) EXCEPT !.cells[x].constructed = TRUE]
      ELSE [s1 EXCEPT !.cells[x].curValue = initializer,
                      !.cells[x].inited = TRUE,
                      !.cells[x].constructed = TRUE]

\* Blaze.Var(initializer, equalsFunc) in the program that runs
Construct(s, x, initializer, equalsFunc) ==
  IF s.mode = "spec" THEN ReactiveCell(s, x, initializer, equalsFunc)
  ELSE BlazeVar(s, x, initializer, equalsFunc)

\* the functions of the computations
Body(s, k) ==
  CASE k = O1 ->
         LET s1 == VarGet(s, A)
             s2 == VarGet(s1, B)
         IN  Log(s2, k, Plus(s1.ret, s2.ret))
    [] k = OE ->
         LET s1 == VarToString(VarGet(s, E), E) IN Log(s1, k, s1.ret)
    [] k = W ->
         LET s1 == Construct([s EXCEPT !.gen = @ + 1], C, Producer, "none")
         IN  Autorun(s1, O2)
    [] k = O2 ->
         LET s1 == VarGet(s, C) IN Log(s1, k, s1.ret)
    [] k = WA ->
         \* var c = Blaze.Var(function () { return a.get() + b.get(); });
         \* console.log(c.get());
         LET x  == AntiCell(s.gen + 1)
             s1 == Construct([s EXCEPT !.gen = @ + 1], x, Producer, "none")
             s2 == VarGet(s1, x)
         IN  Log(s2, k, s2.ret)
    [] k \in {SC, SC2, SR} ->
         \* Blaze.withCurrentController(controller, function () {
         \*   self.set(initializer()); })
         LET t  == InstallController(s, s.cells[CellOf(k)].controller)
             t1 == VarGet([t EXCEPT !.comps[k].seen = t.controller], A)
             t2 == VarGet(t1, B)
         IN  RestoreController(SetIn(t2, CellOf(k), Plus(t1.ret, t2.ret)), s)
    [] OTHER -> s

\* Deps.flush: run the queued computations until none is left
RECURSIVE FlushAll(_)
FlushAll(s) ==
  IF s.pending = <<>> THEN s
  ELSE LET k  == Head(s.pending)
           s1 == [s EXCEPT !.pending = Tail(@)]
       IN  FlushAll(IF s1.comps[k].invalidated /\ ~s1.comps[k].stopped
                    THEN Compute(s1, k) ELSE s1)

\* ------------------------------------------------------------ initial state
Empty ==
  [cells |-> [x \in CellIds |-> NoCell], comps |-> [k \in CompIds |-> NoComputation],
   pending |-> <<>>, gen |-> 0, log |-> [k \in CompIds |-> Null],
   reads |-> [k \in CompIds |-> {}],
   gets |-> [k \in CompIds |-> [x \in CellIds |-> 0]],
   runs |-> [k \in CompIds |-> 0],
   error |-> "none", ret |-> Null, current |-> NoComp, controller |-> "null",
   mode |-> "code"]

\* a statement; the value is recorded for a construction only
Op(op, cell, comp, val) ==
  [op |-> op, cell |-> cell, comp |-> comp,
   val |-> IF op = "init" THEN val ELSE Null]

NoBatch == [ok |-> FALSE, cells |-> {}]

\* a batch is a run of a.set and b.set typed from a state where nothing was
\* pending; it records the cells whose value they changed
NextBatch(t, op) ==
  CASE op.op = "set" /\ op.cell \in {A, B} ->
         LET base == IF pending = <<>> THEN [ok |-> TRUE, cells |-> {}] ELSE batch
         IN  IF t.cells[op.cell].curValue # cells[op.cell].curValue
             THEN [base EXCEPT !.cells = @ \cup {op.cell}]
             ELSE base
    [] op.op \in {"get", "toString", "flush"} -> batch
    [] OTHER -> NoBatch

\* control is back at the console: the variables take the state t
Commit(t, op) ==
  /\ batch' = NextBatch(t, op)
  /\ program' = program
  /\ cells' = t.cells
  /\ comps' = t.comps
  /\ pending' = t.pending
  /\ gen' = t.gen
  /\ log' = t.log
  /\ reads' = t.reads
  /\ gets' = t.gets
  /\ runs' = t.runs
  /\ error' = t.error
  /\ ret' = t.ret
  /\ lastOp' = op

Holds(t, op) ==
  /\ cells = t.cells
  /\ comps = t.comps
  /\ pending = t.pending
  /\ gen = t.gen
  /\ log = t.log
  /\ reads = t.reads
  /\ gets = t.gets
  /\ runs = t.runs
  /\ error = t.error
  /\ ret = t.ret
  /\ lastOp = op
  /\ batch = NoBatch

\* values typed at the console for each cell
Inputs(x) ==
  CASE x = E -> Objs \cup {Null, NaN}
    [] x = B -> {Num(1), Num(2)}
    [] OTHER -> Nums

\* var a = Blaze.Var(va); var b = Blaze.Var(vb);       (first program)
InitSum ==
  /\ program \in {"example1", "example2", "antipattern"}
  /\ \E va \in Inputs(A), vb \in Inputs(B) :
       Holds(BlazeVar(BlazeVar(Empty, A, va, "none"), B, vb, "none"),
             Op("init", A, NoComp, va))

\* var e = Blaze.Var(v, equalsFunc);                   (second program)
InitEq ==
  /\ program = "equals"
  /\ \E v \in Inputs(E), f \in EqualsFuncs :
       Holds(BlazeVar(Empty, E, v, f), Op("init", E, NoComp, v))

Init == InitSum \/ InitEq

\* ----------------------------------------------------------------- actions
\* the Vars the console has a reference to; in the antipattern program c
\* stays local to the function that creates it
Named(x) == x \in {C, C2} => program = "example2"

\* x.set(v) that re-runs the invalidated computations before it returns
Set_RerunsDependents(x, v) ==
  /\ cells[x].constructed
  /\ Named(x)
  /\ Commit(FlushAll(VarSet(Cur("null"), x, v)), Op("set", x, NoComp, v))

\* x.set(v) typed at the console
Set(x, v) ==
  /\ cells[x].constructed
  /\ Named(x)
  /\ Commit(VarSet(Cur("null"), x, v), Op("set", x, NoComp, v))

\* x.get() typed at the console
Get(x) ==
  /\ cells[x].constructed
  /\ Named(x)
  /\ Commit(VarGet(Cur("null"), x), Op("get", x, NoComp, Null))

\* x.toString() typed at the console
ToStringTop(x) ==
  /\ program = "equals"
  /\ cells[x].constructed
  /\ Commit(VarToString(Cur("null"), x), Op("toString", x, NoComp, Null))

\* Blaze.Var(function () { return a.get() + b.get(); }) typed at the console
NewRunaway ==
  /\ program = "example2"
  /\ ~cells[R].constructed
  /\ Commit(BlazeVar(Cur("null"), R, Producer, "none"), Op("new", R, NoComp, Producer))

\* Deps.autorun(function () { console.log(a.get() + b.get()); })
AutorunO1 ==
  /\ program = "example1"
  /\ ~comps[O1].created
  /\ Commit(Autorun(Cur("null"), O1), Op("autorun", A, O1, Null))

\* Deps.autorun(function () { e.get(); console.log(e.toString()); })
AutorunOE ==
  /\ program = "equals"
  /\ ~comps[OE].created
  /\ Commit(Autorun(Cur("null"), OE), Op("autorun", E, OE, Null))

\* handle = Deps.autorun(function () { var c = Blaze.Var(...); Deps.autorun(...) }),
\* typed where Blaze.currentController is ctl
AutorunWrapper(ctl) ==
  /\ program = "example2"
  /\ ~comps[W].created
  /\ Commit(Autorun(Cur(ctl), W), Op("autorun", A, W, Null))

\* Deps.autorun(function () { var c = Blaze.Var(...); console.log(c.get()); })
AutorunAnti ==
  /\ program = "antipattern"
  /\ ~comps[WA].created
  /\ Commit(Autorun(Cur("null"), WA), Op("autorun", A, WA, Null))

\* the computations the console has a handle on: the autoruns it created,
\* and c.computation
Handles == {O1, OE, W, WA, SC}

\* k.stop()
Stop(k) ==
  /\ k \in Handles
  /\ k = SC => program = "example2"
  /\ comps[k].created
  /\ ~comps[k].stopped
  /\ Commit(StopComputation(Cur("null"), k), Op("stop", NoComp, k, Null))

\* handle.invalidate(); the re-run of the wrapper creates the next c
InvalidateWrapper ==
  /\ comps[W].created
  /\ ~comps[W].stopped
  /\ ~comps[W].invalidated
  /\ gen < MaxGen
  /\ Commit(Invalidate(Cur("null"), W), Op("invalidate", NoComp, W, Null))

\* the engine's flush, which runs from the event loop once something is pending
Flush ==
  /\ pending # <<>>
  /\ FlushAll(Cur("null")).gen <= MaxGen
  /\ Commit(FlushAll(Cur("null")), Op("flush", NoComp, NoComp, Null))

Next ==
  \/ \E x \in CellIds : \E v \in Inputs(x) : Set(x, v)
  \/ \E x \in CellIds : Get(x)
  \/ \E x \in CellIds : ToStringTop(x)
  \/ NewRunaway
  \/ AutorunO1
  \/ AutorunOE
  \/ \E ctl \in Controllers : AutorunWrapper(ctl)
  \/ AutorunAnti
  \/ \E k \in CompIds : Stop(k)
  \/ InvalidateWrapper
  \/ Flush

Spec == Init /\ [][Next]_vars

\* ------------------------------------------------------------------ claims
\* the Var that the latest run of the creating computation assigned to c
LatestCell == IF program = "antipattern" THEN AntiCell(gen) ELSE C

Live(k) == comps[k].created /\ ~comps[k].stopped

\* the computations whose latest run called get on x and is still current
Readers(x) ==
  {k \in CompIds : Live(k) /\ ~comps[k].invalidated /\ x \in reads[k]}

\* set(v) on x would change the value under the cell's equality
Changes(x, v) ==
  LET same == SameValue(cells[x].equalsFunc, v, cells[x].curValue)
  IN  ~same.threw /\ ~same.val

\* C1: on a constructed cell without equalsFunc, set(x) with x === the stored
\* value is a no-op: the value stays and no computation is invalidated; this
\* covers set(v0) right after constructing the cell from v0.
C1_SetSameValueIsNoOp ==
  [][\A x \in CellIds : \A v \in Inputs(x) :
       (/\ lastOp' = Op("set", x, NoComp, Null)
        /\ cells[x].equalsFunc = "none"
        /\ StrictEquals(v, cells[x].curValue)
        /\ Set(x, v))
       => /\ cells' = cells
          /\ comps' = comps
          /\ pending' = pending
          /\ error' = "none"]_vars

\* a set on a cell without equalsFunc has returned and a dependent is still
\* registered: the set was a no-op
C1_Witness ==
  \E x \in CellIds :
    /\ lastOp = Op("set", x, NoComp, Null)
    /\ cells[x].equalsFunc = "none"
    /\ cells[x].dep # {}
    /\ \A k \in cells[x].dep : ~comps[k].invalidated

\* C2: when set(newValue) changes the value, then when set returns the stored
\* value is newValue and every computation registered on the cell by a get
\* of its latest run is invalidated, inside the set call (no flush needed).
C2_ChangingSetInvalidatesReaders ==
  [][\A x \in CellIds : \A v \in Inputs(x) :
       (lastOp' = Op("set", x, NoComp, Null) /\ Changes(x, v) /\ Set(x, v))
       => /\ cells'[x].curValue = v
          /\ \A k \in Readers(x) : comps'[k].invalidated]_vars

\* a set has returned leaving a reader of the cell invalidated and queued
C2_Witness ==
  \E x \in CellIds : \E k \in CompIds :
    /\ lastOp = Op("set", x, NoComp, Null)
    /\ x \in reads[k]
    /\ Live(k)
    /\ comps[k].invalidated
    /\ k \in {pending[i] : i \in 1..Len(pending)}

InPending(k) == \E i \in 1..Len(pending) : pending[i] = k

\* C5: a computation that did not call get (or toString) on a cell during
\* its latest run is not invalidated by any set on that cell; a get made
\* while no computation is active registers nothing.
C5_OnlyReadersAreInvalidated ==
  [][/\ \A x \in CellIds :
          lastOp' = Op("set", x, NoComp, Null) =>
            \A k \in CompIds :
              x \notin reads[k] => /\ comps'[k].invalidated = comps[k].invalidated
                                   /\ InPending(k)' => InPending(k)
     /\ lastOp'.op \in {"get", "toString"} =>
            /\ cells' = cells
            /\ comps' = comps
            /\ reads' = reads
            /\ pending' = pending]_vars

\* c.set has returned: the observer that read c is invalidated, and c's own
\* computation, which read a and b but not c, is not
C5_Witness ==
  /\ lastOp = Op("set", C, NoComp, Null)
  /\ C \in reads[O2]
  /\ comps[O2].invalidated
  /\ Live(SC)
  /\ reads[SC] = {A, B}
  /\ ~comps[SC].invalidated
  /\ ~InPending(SC)

\* C6: Blaze.Var(function...) with no active computation throws the
\* precondition error and leaves no partially initialized Var: no
\* computation is created, the initializer is not called, no value is set.
C6_NoVarWithoutComputation ==
  [][lastOp'.op = "new" =>
       /\ error' = "precondition"
       /\ ~cells'[R].constructed
       /\ ~cells'[R].inited
       /\ cells'[R].curValue = Null
       /\ cells'[R].computation = NoComp
       /\ ~comps'[SR].created
       /\ runs' = [k \in CompIds |-> 0]
       /\ reads' = reads
       /\ cells' = cells
       /\ comps' = comps
       /\ pending' = pending]_vars

\* the constructor was called at the console, while computations exist but
\* none is running, and it threw
C6_Witness ==
  /\ lastOp.op = "new"
  /\ error = "precondition"
  /\ Live(W)
  /\ Live(SC)
  /\ ~comps[SR].created
  /\ ~cells[R].constructed

\* C7: for the producer-backed c created while the wrapper W was running:
\* once W is stopped or invalidated, c.computation is stopped, and from
\* then on the producer never runs again for c and c's value does not
\* change, whatever is set on a and b (only a c.set can still change it).
C7_StoppedWithOuterComputation ==
  /\ []((cells[C].constructed /\ (comps[W].stopped \/ comps[W].invalidated))
          => comps[SC].stopped)
  /\ [][(comps[SC].stopped /\ gen' = gen)
          => /\ comps'[SC].stopped
             /\ runs'[SC] = 0
             /\ ~InPending(SC)'
             /\ cells'[C].curValue # cells[C].curValue
                  => lastOp' = Op("set", C, NoComp, Null)]_vars

\* the wrapper was stopped, then a.set changed a: c keeps the value it had,
\* which is no longer a + b
C7_Witness ==
  /\ comps[W].stopped
  /\ comps[SC].stopped
  /\ lastOp = Op("set", A, NoComp, Null)
  /\ cells[C].curValue = log[O2]
  /\ cells[C].curValue # Plus(cells[A].curValue, cells[B].curValue)

\* the flush that follows a.set and b.set which both changed their cells,
\* typed one after the other from a state where nothing was pending
FlushOfBoth == lastOp'.op = "flush" /\ batch.ok /\ batch.cells = {A, B}

SumAB == Plus(cells[A].curValue, cells[B].curValue)

\* C8 as stated: when a.set and b.set both change their cells before the
\* flush, every observer re-runs exactly once in that flush and sees the
\* final values of both, the observer of a.get() + b.get() and the observer
\* of c.get() alike; once the wrapper is stopped the observer never re-runs.
C8_EveryObserverRerunsOnce ==
  [][/\ FlushOfBoth =>
          /\ Live(O1) => runs'[O1] = 1 /\ log'[O1] = SumAB'
          /\ (Live(O2) /\ Live(SC)) => runs'[O2] = 1 /\ log'[O2] = SumAB'
     /\ comps[W].stopped => runs'[O2] = 0]_vars

\* C8 (amended): in that flush the observer of a.get() + b.get() re-runs
\* exactly once and logs the final sum; the producer of c runs exactly once;
\* the observer of c.get() re-runs exactly once and logs the final sum when
\* that sum differs from the value c held, and does not re-run when it is
\* the same; no observer logs an intermediate sum; once the wrapper is
\* stopped the observer of c never re-runs.
C8_ObserversRerunOnceOnChange ==
  [][/\ FlushOfBoth =>
          /\ Live(O1) => runs'[O1] = 1 /\ log'[O1] = SumAB'
          /\ (Live(O2) /\ Live(SC)) =>
               /\ runs'[SC] = 1
               /\ cells'[C].curValue = SumAB'
               /\ IF StrictEquals(SumAB, cells[C].curValue)
                  THEN runs'[O2] = 0 /\ log'[O2] = log[O2]
                  ELSE runs'[O2] = 1 /\ log'[O2] = SumAB'
     /\ comps[W].stopped => runs'[O2] = 0]_vars

\* a.set and b.set both changed their cells, and the flush ran the producer
\* and the observer of c once each; the observer logged the final sum
C8_Witness ==
  /\ lastOp.op = "flush"
  /\ batch.ok
  /\ batch.cells = {A, B}
  /\ Live(O2)
  /\ runs[SC] = 1
  /\ runs[O2] = 1
  /\ log[O2] = SumAB

\* C9: a producer-backed Var whose computation is stopped is still
\* reactively gettable and settable: a get inside a live computation
\* registers that computation, a get returns the stored value, and a
\* value-changing set stores the value and invalidates the registered
\* computations, as for a Var made from a plain value.
C9_StoppedVarStaysReactive ==
  /\ []((cells[C].constructed /\ comps[SC].stopped)
          => \A k \in Readers(C) : k \in cells[C].dep)
  /\ [][(cells[C].constructed /\ comps[SC].stopped) =>
          /\ \A v \in Inputs(C) :
               (/\ lastOp' = Op("set", C, NoComp, Null)
                /\ ~StrictEquals(v, cells[C].curValue)
                /\ Set(C, v))
               => /\ cells'[C].curValue = v
                  /\ cells[C].dep = Readers(C)
                  /\ \A k \in Readers(C) : comps'[k].invalidated /\ InPending(k)'
          /\ (lastOp'.op = "get" /\ Get(C)) => ret' = cells[C].curValue /\ cells' = cells]_vars

\* c.computation is stopped, and a flush has just re-run the observer of c,
\* whose c.get() registered it on c again
C9_Witness ==
  /\ comps[SC].stopped
  /\ Live(O2)
  /\ lastOp.op = "flush"
  /\ runs[O2] = 1
  /\ cells[C].dep = {O2}
  /\ log[O2] = cells[C].curValue
  /\ log[O2] # SumAB

\* the outer computation of the g-th c is stopped or invalidated
OuterDone(g) ==
  gen = g /\ cells[C].constructed /\ (comps[W].stopped \/ comps[W].invalidated)

\* C10: in every run in which the outer computation is at some point
\* invalidated or stopped, there is a point after which the producer is
\* never called again for that Var, whatever is set on a and b afterwards.
C10_EventuallyStopsRecomputing ==
  \A g \in 1..MaxGen :
    OuterDone(g) ~> [](~(gen = g /\ runs[SC] > 0))

\* the wrapper was invalidated, and then b.set changed an input of the
\* producer, which did not run
C10_Witness ==
  /\ comps[W].invalidated
  /\ comps[SC].stopped
  /\ lastOp = Op("set", B, NoComp, Null)
  /\ runs[SC] = 0
  /\ ~InPending(SC)
  /\ cells[C].curValue # SumAB

\* C11: when the equalsFunc throws during set, the exception reaches the
\* caller of set and the cell is unchanged: the stored value is the old
\* value, no dependent is invalidated or queued, no computation runs.
C11_ThrowingEqualsLeavesCell ==
  [][\A x \in CellIds : \A v \in Inputs(x) :
       (/\ lastOp' = Op("set", x, NoComp, Null)
        /\ cells[x].inited
        /\ SameValue(cells[x].equalsFunc, v, cells[x].curValue).threw
        /\ Set(x, v))
       => /\ error' = "TypeError"
          /\ cells' = cells
          /\ comps' = comps
          /\ pending' = pending
          /\ runs' = [k \in CompIds |-> 0]
          /\ log' = log]_vars

\* e.set threw in the equalsFunc while the observer of e was registered:
\* the observer is still registered and not invalidated, e holds null
C11_Witness ==
  /\ lastOp = Op("set", E, NoComp, Null)
  /\ error = "TypeError"
  /\ cells[E].equalsFunc = "byId"
  /\ cells[E].curValue = Null
  /\ cells[E].dep = {OE}
  /\ ~comps[OE].invalidated
  /\ pending = <<>>

\* C12: set never re-runs a dependent itself: no function of a computation
\* runs during a set typed at the console, and a computation that a set
\* has invalidated runs again only as a step of the engine's flush.
C12_SetNeverRerunsDependents ==
  [][/\ lastOp'.op = "set" =>
          /\ runs' = [k \in CompIds |-> 0]
          /\ log' = log
     /\ \A k \in CompIds :
          (Live(k) /\ comps[k].invalidated /\ runs'[k] > 0)
            => lastOp'.op = "flush"]_vars

\* a.set changed a and has returned: the observer of a.get() + b.get() is
\* invalidated and queued, it has not run, and its log is the old sum
C12_Witness ==
  /\ lastOp = Op("set", A, NoComp, Null)
  /\ Live(O1)
  /\ comps[O1].invalidated
  /\ InPending(O1)
  /\ runs[O1] = 0
  /\ log[O1] # SumAB

\* how many times k is queued for the flush
Queued(k) == Cardinality({i \in 1..Len(pending) : pending[i] = k})

\* C13: registration is idempotent and invalidation is edge-triggered: a
\* computation that called get on a cell once or several times in its run is
\* registered on it as one dependent, is queued at most once at any time,
\* one value-changing set invalidates and queues it exactly once, and the
\* flush after one value-changing set re-runs every computation at most once.
C13_RegisteredOnceInvalidatedOnce ==
  /\ [](\A k \in CompIds :
          /\ Queued(k) <= 1
          /\ \A x \in CellIds :
               /\ gets[k][x] > 0 <=> x \in reads[k]
               /\ k \in Readers(x) => k \in cells[x].dep)
  /\ [][/\ \A x \in CellIds : \A v \in Inputs(x) :
            (lastOp' = Op("set", x, NoComp, Null) /\ Changes(x, v) /\ Set(x, v))
            => \A k \in Readers(x) : comps'[k].invalidated /\ Queued(k)' = 1
        /\ lastOp'.op = "flush" =>
             /\ runs'[O1] <= 1
             /\ runs'[OE] <= 1
             /\ (batch.ok /\ Cardinality(batch.cells) = 1)
                  => \A k \in CompIds : runs'[k] <= 1]_vars

\* the observer of e, which calls get on e twice in a run, was invalidated by
\* one e.set and the flush has re-run it once
C13_Witness ==
  /\ lastOp.op = "flush"
  /\ gets[OE][E] = 2
  /\ runs[OE] = 1
  /\ cells[E].dep = {OE}
  /\ log[OE] = VarString(cells[E].curValue)
  /\ cells[E].curValue = Obj(2)

\* the Var that Blaze.Var(v, f) returns
NewVar(v, f) ==
  [NoCell EXCEPT !.equalsFunc = f, !.curValue = v, !.inited = TRUE,
                 !.constructed = TRUE]

\* C14: the first assignment, made during construction, always takes effect
\* and never consults the equalsFunc: Blaze.Var(v, f) holds v when the
\* constructor returns, for every v (null, the placeholder, included) and
\* every f (one that reports v equal to the placeholder, or that would throw
\* on it, included); a producer-backed Var holds the result of the first
\* run of the producer; every constructed Var is marked inited.
C14_FirstAssignmentTakesEffect ==
  /\ [](/\ \A x \in CellIds : cells[x].constructed => cells[x].inited
        /\ lastOp.op = "init" =>
             /\ cells[lastOp.cell].curValue = lastOp.val
             /\ error = "none"
        /\ \A v \in Inputs(E) : \A f \in EqualsFuncs :
             LET t == BlazeVar(Cur("null"), R, v, f)
             IN  t.cells[R] = NewVar(v, f) /\ t.error = "none")
  /\ [][gen' # gen =>
          /\ cells'[LatestCell'].constructed
          /\ cells'[LatestCell'].inited
          /\ cells'[LatestCell'].computation = SelfOf(LatestCell')
          /\ runs'[SelfOf(LatestCell')] = 1
          /\ cells'[LatestCell'].curValue = SumAB']_vars

\* e = Blaze.Var({id: 1, n: 2}, function () { return true; }) has returned:
\* e holds the object, although the equalsFunc reports it equal to null
C14_Witness ==
  /\ lastOp.op = "init"
  /\ lastOp.val = Obj(2)
  /\ cells[E].equalsFunc = "always"
  /\ cells[E].curValue = Obj(2)
  /\ cells[E].inited

\* the controllers that can be current when the engine's flush starts
AmbientControllers == Controllers \cup {"null", "other"}

\* C15: on every run of c.computation, the first and every re-run, the
\* producer runs with the controller that was current when c was
\* constructed, whatever controller is current when the re-run is triggered,
\* and the controller that was current before the run is current after it.
C15_ProducerRunsUnderCapturedController ==
  /\ [](\A q \in AmbientControllers :
          pending # <<>> =>
            LET t == FlushAll(Cur(q))
            IN  /\ t.controller = q
                /\ \A x \in {C, C2} :
                     /\ (t.gen = gen) => (t.cells[x].controller = cells[x].controller)
                     /\ (t.runs[SelfOf(x)] > 0)
                          => (t.comps[SelfOf(x)].seen = t.cells[x].controller))
  /\ [][/\ (lastOp'.op = "autorun" /\ lastOp'.comp = W) =>
            \E ctl \in Controllers : /\ AutorunWrapper(ctl)
                                     /\ cells'[C].controller = ctl
                                     /\ runs'[SC] = 1
                                     /\ comps'[SC].seen = ctl
        /\ \A x \in {C, C2} :
             /\ (gen' = gen) => (cells'[x].controller = cells[x].controller)
             /\ (runs'[SelfOf(x)] > 0)
                  => (comps'[SelfOf(x)].seen = cells'[x].controller)]_vars

\* c was constructed under the controller ctl; the flush, which runs with no
\* controller, has re-run the producer, and the producer ran under ctl
C15_Witness ==
  /\ lastOp.op = "flush"
  /\ gen = 1
  /\ runs[SC] = 1
  /\ cells[C].controller = "ctl"
  /\ comps[SC].seen = "ctl"

\* the flush re-runs the computation of the latest Var, whose creator WA read
\* the Var and is still registered on it, and the producer yields a new sum
SelfChange ==
  /\ program = "antipattern"
  /\ Live(WA)
  /\ WA \in Readers(LatestCell)
  /\ Live(SelfOf(LatestCell))
  /\ comps[SelfOf(LatestCell)].invalidated
  /\ ~StrictEquals(SumAB, cells[LatestCell].curValue)
  /\ lastOp'.op = "flush"

\* C16: when the computation that created a producer-backed Var also reads
\* it, a change of the Var's value destroys the Var: the re-run of its
\* computation sets the Var, which invalidates the creating computation,
\* which stops the Var's computation; the creating computation re-runs and
\* creates a new Var (the producer runs twice for one change); the old Var
\* is never recomputed again.  A re-run that yields the same value destroys
\* nothing.
C16_ReadingCreatorRecreatesVar ==
  /\ []((program = "antipattern" /\ gen >= 2)
          => comps[SelfOf(AntiCell(gen - 1))].stopped)
  /\ [][/\ SelfChange =>
            /\ gen' = gen + 1
            /\ LatestCell' # LatestCell
            /\ cells'[LatestCell].curValue = SumAB'
            /\ cells'[LatestCell].dep = {}
            /\ comps'[SelfOf(LatestCell)].stopped
            /\ runs'[SelfOf(LatestCell)] = 1
            /\ runs'[WA] = 1
            /\ runs'[SelfOf(LatestCell')] = 1
            /\ comps'[SelfOf(LatestCell')].created
            /\ ~comps'[SelfOf(LatestCell')].stopped
            /\ cells'[LatestCell'].curValue = SumAB'
            /\ cells'[LatestCell'].dep = {WA}
            /\ log'[WA] = SumAB'
        /\ (/\ program = "antipattern"
            /\ pending = <<SelfOf(LatestCell)>>
            /\ StrictEquals(SumAB, cells[LatestCell].curValue)
            /\ lastOp'.op = "flush")
            => gen' = gen /\ runs'[WA] = 0 /\ Live(SelfOf(LatestCell))'
        /\ \A x \in {C, C2} :
             (/\ program = "antipattern"
              /\ comps[SelfOf(x)].stopped
              /\ (gen' = gen \/ x # LatestCell'))
             => /\ comps'[SelfOf(x)].stopped
                /\ runs'[SelfOf(x)] = 0
                /\ cells'[x].curValue # cells[x].curValue
                     => lastOp' = Op("set", x, NoComp, Null)]_vars

\* a.set changed the sum and the flush has run: the first c got the new sum
\* and its computation is stopped, WA re-ran and the second c is live
C16_Witness ==
  /\ program = "antipattern"
  /\ lastOp.op = "flush"
  /\ gen = 2
  /\ comps[SC].stopped
  /\ Live(SC2)
  /\ runs[SC] = 1
  /\ runs[WA] = 1
  /\ runs[SC2] = 1
  /\ cells[C].curValue = SumAB
  /\ cells[C2].curValue = SumAB
  /\ log[WA] = SumAB

\* x.get() called while the live computation k is running
GetIn(k, x) == VarGet([Cur("null") EXCEPT !.current = k], x)

\* C17: get never changes the stored value or the inited flag and returns
\* the value stored by the latest accepted set; called while no computation
\* is active it changes no state at all, and called in a computation it
\* changes nothing but the registration of that computation on the cell.
C17_GetIsFramePure ==
  /\ [](\A x \in CellIds : \A k \in CompIds :
          (cells[x].constructed /\ Live(k)) =>
            LET t == GetIn(k, x)
            IN  /\ t.ret = cells[x].curValue
                /\ t.cells = [cells EXCEPT ![x].dep = cells[x].dep \cup {k}]
                /\ t.comps = comps
                /\ t.pending = pending)
  /\ [][/\ \A x \in CellIds :
            (lastOp' = Op("get", x, NoComp, Null) /\ Get(x)) =>
              /\ ret' = cells[x].curValue
              /\ cells' = cells
              /\ comps' = comps
              /\ pending' = pending
              /\ reads' = reads
              /\ gets' = gets
              /\ log' = log
              /\ error' = "none"
        /\ \A x \in CellIds : \A v \in Inputs(x) :
            (lastOp' = Op("set", x, NoComp, Null) /\ Set(x, v)) =>
              VarGet(Cur("null"), x).ret' =
                IF Changes(x, v) THEN v ELSE cells[x].curValue]_vars

\* c.get() typed at the console returned the sum, while the observer of c is
\* the only dependent of c and c.computation is live
C17_Witness ==
  /\ lastOp = Op("get", C, NoComp, Null)
  /\ ret = cells[C].curValue
  /\ ret = SumAB
  /\ Live(SC)
  /\ cells[C].dep = {O2}
  /\ pending = <<>>

\* W or WA, the computations in which a producer-backed Var is constructed
Wrappers == {W, WA}

\* C18: the reads of the producer register the Var's own computation, not
\* the computation in which the Var was constructed: a and b never have that
\* computation as a dependent, a value-changing set on a or b invalidates
\* and queues the Var's computation and leaves the constructing computation
\* as it is; the wrapper of example 2, which reads no Var, is invalidated
\* only by handle.invalidate() and never re-runs otherwise, and WA re-runs
\* only when c, which it reads itself, has changed.
C18_ProducerReadsRegisterOwnComputation ==
  /\ [](/\ (cells[A].dep \cup cells[B].dep) \cap Wrappers = {}
        /\ reads[W] = {}
        /\ reads[WA] \subseteq {C, C2}
        /\ \A k \in {SC, SC2} :
             (Live(k) /\ ~comps[k].invalidated)
               => /\ reads[k] = {A, B}
                  /\ k \in cells[A].dep
                  /\ k \in cells[B].dep)
  /\ [][/\ \A x \in {A, B} : \A v \in Inputs(x) :
            (lastOp' = Op("set", x, NoComp, Null) /\ Changes(x, v) /\ Set(x, v))
            => /\ \A k \in Wrappers : /\ comps'[k] = comps[k]
                                       /\ InPending(k)' = InPending(k)
                                       /\ runs'[k] = 0
               /\ gen' = gen
               /\ \A k \in {SC, SC2} :
                    (Live(k) /\ ~comps[k].invalidated)
                      => comps'[k].invalidated /\ InPending(k)'
        /\ (comps'[W].invalidated /\ ~comps[W].invalidated)
            => lastOp'.op = "invalidate"
        /\ (lastOp'.op = "flush" /\ ~comps[W].invalidated) => runs'[W] = 0
        /\ (lastOp'.op = "flush" /\ runs'[WA] > 0)
            => cells'[LatestCell].curValue # cells[LatestCell].curValue]_vars

\* a.set changed a in example 2: c.computation is invalidated and queued,
\* alone, and the wrapper is neither invalidated nor queued
C18_Witness ==
  /\ lastOp = Op("set", A, NoComp, Null)
  /\ Live(W)
  /\ ~comps[W].invalidated
  /\ Live(SC)
  /\ comps[SC].invalidated
  /\ pending = <<SC>>
  /\ runs[W] = 0
  /\ cells[C].curValue # SumAB

\* C19: equality gating holds through a producer-backed Var: when the flush
\* re-runs the Var's computation alone, after sets on a and b, and the
\* producer yields a sum equal to the stored value, the value is not
\* rewritten, the dependents of the Var stay registered, and no computation
\* that read the Var is invalidated, queued or re-run.
C19_EqualResultStopsPropagation ==
  [][\A x \in {C, C2} :
       (/\ lastOp'.op = "flush"
        /\ pending = <<SelfOf(x)>>
        /\ Live(SelfOf(x))
        /\ StrictEquals(SumAB, cells[x].curValue))
       => /\ runs'[SelfOf(x)] = 1
          /\ cells'[x] = cells[x]
          /\ \A k \in CompIds \ {SelfOf(x)} :
               /\ runs'[k] = 0
               /\ comps'[k] = comps[k]
          /\ ~comps'[SelfOf(x)].invalidated
          /\ pending' = <<>>
          /\ log' = log
          /\ gen' = gen]_vars

\* a.set and b.set changed a and b and left the sum as it was: the flush
\* has run the producer, and the observer of c, still registered on c, has
\* not run
C19_Witness ==
  /\ lastOp.op = "flush"
  /\ batch.ok
  /\ batch.cells = {A, B}
  /\ runs[SC] = 1
  /\ runs[O2] = 0
  /\ Live(O2)
  /\ ~comps[O2].invalidated
  /\ cells[C].dep = {O2}
  /\ cells[C].curValue = SumAB
  /\ log[O2] = SumAB

\* the state a statement works on when the specification's ReactiveCell runs
SpecCur(ctl) == [Cur(ctl) EXCEPT !.mode = "spec"]

\* the state t, which the specification's program reaches, is the state
\* var.js has reached: stored values and initialized flags, dependents,
\* invalidated, stopped and queued computations, logs, result and exception
Agrees(t) ==
  /\ t.cells = cells'
  /\ t.comps = comps'
  /\ t.pending = pending'
  /\ t.log = log'
  /\ t.gen = gen'
  /\ t.ret = ret'
  /\ t.error = error'

\* C20: var.js marks the Var inited once, at the end of the constructor, and
\* the specification marks the cell initialized in the first accepted set;
\* from the same state, every construction, get, set, flush, stop and
\* invalidation leaves both programs in the same state, with the same
\* stored values and the same invalidated and queued computations, so both
\* agree on every sequence of statements, for plain and producer-backed Vars.
C20_InitedPlacementIsEquivalent ==
  /\ [](lastOp.op = "init" =>
          IF program = "equals"
          THEN cells = ReactiveCell([Empty EXCEPT !.mode = "spec"], E, lastOp.val,
                                    cells[E].equalsFunc).cells
          ELSE \E vb \in Inputs(B) :
                 cells = ReactiveCell(ReactiveCell([Empty EXCEPT !.mode = "spec"],
                                                   A, lastOp.val, "none"),
                                      B, vb, "none").cells)
  /\ [][/\ \A x \in CellIds : \A v \in Inputs(x) :
            (lastOp' = Op("set", x, NoComp, Null) /\ Set(x, v))
              => Agrees(CellSet(SpecCur("null"), x, v))
        /\ \A x \in CellIds :
            /\ lastOp' = Op("get", x, NoComp, Null)
                 => Agrees(VarGet(SpecCur("null"), x))
            /\ lastOp' = Op("toString", x, NoComp, Null)
                 => Agrees(VarToString(SpecCur("null"), x))
        /\ lastOp'.op = "flush" => Agrees(FlushAll(SpecCur("null")))
        /\ lastOp'.op = "stop" =>
             Agrees(StopComputation(SpecCur("null"), lastOp'.comp))
        /\ lastOp'.op = "invalidate" => Agrees(Invalidate(SpecCur("null"), W))
        /\ lastOp'.op = "new" =>
             Agrees(ReactiveCell(SpecCur("null"), R, Producer, "none"))
        /\ lastOp'.op = "autorun" =>
             \E ctl \in Controllers :
               Agrees(Autorun(SpecCur(IF lastOp'.comp = W THEN ctl ELSE "null"),
                              lastOp'.comp))]_vars

\* the flush has re-run the wrapper, which constructed the second c from the
\* producer: c is inited and holds the sum, and its computation is live
C20_Witness ==
  /\ program = "example2"
  /\ lastOp.op = "flush"
  /\ gen = 2
  /\ runs[W] = 1
  /\ runs[SC] = 1
  /\ cells[C].inited
  /\ cells[C].curValue = SumAB
  /\ Live(SC)
  /\ cells[C].dep = {O2}

====
